---- MODULE Spec2Model ----
(***************************************************************************)
(* Samarium_Fluorescence.ipynb: the fluorescence / Rabi-frequency cell.    *)
(*                                                                         *)
(* The notebook computes with float64.  The model computes the same        *)
(* expressions, in the same order, in exact rational arithmetic: a         *)
(* frequency sample is a signed fraction <<p, q>> of machine integers, a   *)
(* spectral value is a non-negative fraction <<n, d>> of arbitrary-size    *)
(* naturals (sequences of limbs, least significant first).  np.pi is the   *)
(* rational PiNum / PiDen.                                                 *)
(***************************************************************************)
EXTENDS Integers, Sequences, FiniteSets, TLC

(***************************************************************************)
(* Arbitrary-size naturals.                                                *)
(***************************************************************************)
Base == 10 * 10 * 10

RECURSIVE BFromInt(_)
BFromInt(n) == IF n = 0 THEN <<>> ELSE <<n % Base>> \o BFromInt(n \div Base)

RECURSIVE BToInt(_)
BToInt(a) == IF a = <<>> THEN 0 ELSE Head(a) + Base * BToInt(Tail(a))

BDigit(a, i) == IF i >= 1 /\ i <= Len(a) THEN a[i] ELSE 0

\* Carry propagation over the column sums cols[lo..hi] with carry-in cin:
\* <<limbs, carry-out>>.
RECURSIVE BCarryRange(_, _, _, _)
BCarryRange(cols, lo, hi, cin) ==
    IF lo = hi
    THEN LET s == cols[lo] + cin IN <<<<s % Base>>, s \div Base>>
    ELSE LET mid == (lo + hi) \div 2
             low == BCarryRange(cols, lo, mid, cin)
             high == BCarryRange(cols, mid + 1, hi, low[2])
         IN  <<low[1] \o high[1], high[2]>>

BCarry(cols, n) ==
    IF n = 0 THEN <<>>
    ELSE LET r == BCarryRange(cols, 1, n, 0) IN r[1] \o BFromInt(r[2])

BAdd(a, b) ==
    LET n == IF Len(a) > Len(b) THEN Len(a) ELSE Len(b)
    IN  BCarry([i \in 1..n |-> BDigit(a, i) + BDigit(b, i)], n)

RECURSIVE BColSum(_, _, _, _, _)
BColSum(a, b, k, i, hi) ==
    IF i > hi THEN 0
    ELSE a[i] * b[k + 1 - i] + BColSum(a, b, k, i + 1, hi)

BMul(a, b) ==
    IF a = <<>> \/ b = <<>> THEN <<>>
    ELSE LET la == Len(a)
             lb == Len(b)
             cols == [k \in 1..(la + lb - 1) |->
                        BColSum(a, b, k,
                                IF k + 1 - lb > 1 THEN k + 1 - lb ELSE 1,
                                IF k < la THEN k ELSE la)]
         IN  BCarry(cols, la + lb - 1)

RECURSIVE BLessAt(_, _, _)
BLessAt(a, b, i) ==
    IF i = 0 THEN FALSE
    ELSE IF a[i] # b[i] THEN a[i] < b[i]
    ELSE BLessAt(a, b, i - 1)

BLess(a, b) ==
    IF Len(a) # Len(b) THEN Len(a) < Len(b) ELSE BLessAt(a, b, Len(a))

(***************************************************************************)
(* Non-negative rationals <<n, d>> over the naturals above, d # 0.         *)
(***************************************************************************)
RECURSIVE Gcd(_, _)
Gcd(a, b) == IF b = 0 THEN a ELSE Gcd(b, a % b)

\* Lowest terms when numerator and denominator both fit a machine integer.
RatNorm(r) ==
    IF Len(r[1]) <= 3 /\ Len(r[2]) <= 3
    THEN LET n == BToInt(r[1])
             d == BToInt(r[2])
             g == Gcd(n, d)
         IN  <<BFromInt(n \div g), BFromInt(d \div g)>>
    ELSE r

Rat(n, d) == RatNorm(<<BFromInt(n), BFromInt(d)>>)
RatZero == Rat(0, 1)
RatOne == Rat(1, 1)

RatAdd(r, s) ==
    IF r[2] = s[2] THEN RatNorm(<<BAdd(r[1], s[1]), r[2]>>)
    ELSE RatNorm(<<BAdd(BMul(r[1], s[2]), BMul(s[1], r[2])), BMul(r[2], s[2])>>)

RatMul(r, s) == RatNorm(<<BMul(r[1], s[1]), BMul(r[2], s[2])>>)

\* r / s, s # 0
RatDiv(r, s) ==
    IF r[2] = s[2] THEN RatNorm(<<r[1], s[1]>>)
    ELSE RatNorm(<<BMul(r[1], s[2]), BMul(r[2], s[1])>>)

RatEq(r, s) == BMul(r[1], s[2]) = BMul(s[1], r[2])
RatLess(r, s) == BLess(BMul(r[1], s[2]), BMul(s[1], r[2]))
RatLeq(r, s) == ~RatLess(s, r)

RECURSIVE RatSum(_, _)
RatSum(xs, i) == IF i > Len(xs) THEN RatZero ELSE RatAdd(xs[i], RatSum(xs, i + 1))

RECURSIVE RatMax(_, _)
RatMax(xs, i) ==
    IF i = Len(xs) THEN xs[i]
    ELSE LET m == RatMax(xs, i + 1)
         IN  IF RatLess(xs[i], m) THEN m ELSE xs[i]

(***************************************************************************)
(* Signed fractions <<p, q>> of machine integers, q > 0, in lowest terms:  *)
(* the samples of the frequency axes.                                      *)
(***************************************************************************)
Abs(n) == IF n < 0 THEN -n ELSE n

Q(p, q) ==
    LET g == Gcd(Abs(p), q) IN <<p \div g, q \div g>>

QAdd(x, y) == Q(x[1] * y[2] + y[1] * x[2], x[2] * y[2])
QSub(x, y) == Q(x[1] * y[2] - y[1] * x[2], x[2] * y[2])
QMulInt(x, k) == Q(x[1] * k, x[2])
QDivInt(x, k) == Q(x[1], x[2] * k)
QLess(x, y) == x[1] * y[2] < y[1] * x[2]

\* ceil(x / y) for y > 0
QCeilDiv(x, y) ==
    LET n == x[1] * y[2]
        d == x[2] * y[1]
    IN  IF n % d = 0 THEN n \div d ELSE (n \div d) + 1

\* |x| as a non-negative rational
QAbsRat(x) == Rat(Abs(x[1]), x[2])

(***************************************************************************)
(* Program constants.                                                      *)
(***************************************************************************)
\* np.pi, as the rational 22/7
PiNum == 22
PiDen == 7
Pi == Rat(PiNum, PiDen)

\* Eff = 0.5 * 0.01
Eff == RatMul(Rat(1, 2), Rat(1, 100))
\* e / pA = 1.602E-19 / 1E-12
ElectronsPerPicoAmp == RatDiv(Rat(1602, 100000), Rat(100000, 1))

\* d_omega = larger_line / 100001: the number of steps across the larger
\* linewidth, scaled down so that the arrays can be enumerated.
Steps == 2

(***************************************************************************)
(* numpy                                                                   *)
(***************************************************************************)
\* A faulty variant of ArangeLen: the stop included, floor((stop - start) / step) + 1.
ArangeLenClosed(start, stop, step) ==
    LET n == QSub(stop, start)[1] * step[2]
        d == QSub(stop, start)[2] * step[1]
    IN  IF n < 0 THEN 0 ELSE (n \div d) + 1

\* np.arange(start, stop, step), step > 0: ceil((stop - start) / step)
\* samples start + i * step, the stop excluded.
ArangeLen(start, stop, step) ==
    LET n == QCeilDiv(QSub(stop, start), step) IN IF n > 0 THEN n ELSE 0

Arange(start, stop, step) ==
    [i \in 1..ArangeLen(start, stop, step) |-> QAdd(start, QMulInt(step, i - 1))]

\* np.linspace(start, stop, num=num): num samples, both ends included,
\* start + i * (stop - start) / (num - 1).
Linspace(start, stop, num) ==
    IF num <= 0 THEN <<>>
    ELSE IF num = 1 THEN <<start>>
    ELSE LET step == QDivInt(QSub(stop, start), num - 1)
         IN  [i \in 1..num |-> QAdd(start, QMulInt(step, i - 1))]

\* np.convolve(a, v, 'full')[k] = sum_j a[j] * v[k - j], len(a) + len(v) - 1 bins
RECURSIVE ConvolveAt(_, _, _, _)
ConvolveAt(a, v, k, j) ==
    IF j > Len(a) THEN RatZero
    ELSE IF k + 1 - j >= 1 /\ k + 1 - j <= Len(v)
    THEN RatAdd(RatMul(a[j], v[k + 1 - j]), ConvolveAt(a, v, k, j + 1))
    ELSE ConvolveAt(a, v, k, j + 1)

\* A faulty variant of Convolve: mode 'same', max(len(a), len(v)) bins cut from the middle.
ConvolveSame(a, v) ==
    LET n == IF Len(a) > Len(v) THEN Len(a) ELSE Len(v)
        m == IF Len(a) > Len(v) THEN Len(v) ELSE Len(a)
    IN  [k \in 1..n |-> ConvolveAt(a, v, k + ((m - 1) \div 2), 1)]

Convolve(a, v) == [k \in 1..(Len(a) + Len(v) - 1) |-> ConvolveAt(a, v, k, 1)]

(***************************************************************************)
(* def Lorentz(omega, omega_0, Gamma), Gamma # 0:                          *)
(*   1/(np.pi * (Gamma/2)) * 1 / (1 + ((omega - omega_0)/(Gamma/2))**2)    *)
(***************************************************************************)
\* A faulty variant of Lorentz: the offset scaled by Gamma instead of Gamma/2.
LorentzFullWidth(omega, omega_0, Gamma) ==
    LET half == Rat(Gamma, 2)
        t == RatDiv(QAbsRat(QSub(omega, omega_0)), Rat(Gamma, 1))
    IN  RatDiv(RatMul(RatDiv(RatOne, RatMul(Pi, half)), RatOne),
               RatAdd(RatOne, RatMul(t, t)))

Lorentz(omega, omega_0, Gamma) ==
    LET half == Rat(Gamma, 2)
        t == RatDiv(QAbsRat(QSub(omega, omega_0)), half)
    IN  RatDiv(RatMul(RatDiv(RatOne, RatMul(Pi, half)), RatOne),
               RatAdd(RatOne, RatMul(t, t)))

\* Lorentz over an array of offsets
LorentzArr(omega, omega_0, Gamma) ==
    [i \in 1..Len(omega) |-> Lorentz(omega[i], omega_0, Gamma)]

(***************************************************************************)
(* The kernel's state: the parameters set by the optical-properties and    *)
(* crystal-properties cells, and the names bound by the modelling cell.    *)
(***************************************************************************)
VARIABLES
    pc,               \* position in the modelling cell
    Gamma_L, Gamma_Ex, Gamma_H, Gamma_In, Phi, sigma, N_Inhom,
    d_omega, omega, omega_0, omega_tot,
    Phi_omega, sigma_omega_0, R_omega_0,
    N_Inhom_omega_0, Frac_omega_0,
    Omega_0_sq,       \* the radicand of Omega_0 = np.sqrt(...)
    Gamma_Sc,
    report,           \* what the cell has printed
    prev,             \* inputs and Gamma_Sc of the previous execution of the cell
    lz                \* a stand-alone call of Lorentz: arguments and result

params == <<Gamma_L, Gamma_Ex, Gamma_H, Gamma_In, Phi, sigma, N_Inhom>>
grid == <<d_omega, omega, omega_0, omega_tot>>
profiles == <<Phi_omega, sigma_omega_0>>
densities == <<N_Inhom_omega_0, Frac_omega_0>>
scalars == <<Omega_0_sq, Gamma_Sc>>
vars == <<pc, params, grid, profiles, R_omega_0, densities, scalars, report, prev, lz>>

\* Values the parameter cells are executed with.  0 stands for the
\* non-positive values; the excited-state linewidth is kept positive.
MaxFlux == 2
MaxAtoms == 2
LaserWidths == {0, 1, 2}
HomWidths == {0, 1, 4}
InhomWidths == {0, 1, 3}
ExWidths == {1, 2}
Fluxes == 0..MaxFlux
CrossSections == {1, 3}
AtomCounts == 1..MaxAtoms

NoPrev == [valid |-> FALSE]
NoReport == [lines |-> 0, warnings |-> {}]
NoCall == [pc |-> "idle"]

Cleared ==
    /\ d_omega = Q(0, 1) /\ omega = <<>> /\ omega_0 = <<>> /\ omega_tot = <<>>
    /\ Phi_omega = <<>> /\ sigma_omega_0 = <<>> /\ R_omega_0 = <<>>
    /\ N_Inhom_omega_0 = <<>> /\ Frac_omega_0 = <<>>
    /\ Omega_0_sq = RatZero /\ Gamma_Sc = RatZero
    /\ report = NoReport

Init ==
    /\ pc = "grid"
    /\ Gamma_L \in LaserWidths
    /\ Gamma_Ex \in ExWidths
    /\ Gamma_H \in HomWidths
    /\ Gamma_In \in InhomWidths
    /\ Phi \in Fluxes
    /\ sigma \in CrossSections
    /\ N_Inhom \in AtomCounts
    /\ Cleared
    /\ prev = NoPrev
    /\ lz = NoCall

Max(a, b) == IF a > b THEN a ELSE b

\* lines 208-212
BuildGrid ==
    /\ pc = "grid"
    /\ LET larger_line == Max(Gamma_L, Gamma_H)
           d == Q(larger_line, Steps)
       IN  IF larger_line = 0
           THEN \* np.arange with a zero step raises
                /\ pc' = "error"
                /\ UNCHANGED grid
           ELSE LET om == Arange(Q(-3 * Gamma_L, 2), Q(3 * Gamma_L, 2), d)
                    om0 == Arange(Q(-3 * Gamma_H, 2), Q(3 * Gamma_H, 2), d)
                IN  /\ pc' = "profiles"
                    /\ d_omega' = d
                    /\ omega' = om
                    /\ omega_0' = om0
                    /\ omega_tot' =
                         Linspace(QSub(Q(-3 * Gamma_L, 2), Q(3 * Gamma_H, 2)),
                                  QAdd(Q(3 * Gamma_L, 2), Q(3 * Gamma_H, 2)),
                                  Len(om) + Len(om0) - 1)
    /\ UNCHANGED <<params, profiles, R_omega_0, densities, scalars, report, prev, lz>>

\* lines 214-215
Profiles ==
    /\ pc = "profiles"
    /\ IF Gamma_L = 0 \/ Gamma_H = 0
       THEN \* 1/(np.pi * (Gamma/2)) raises ZeroDivisionError
            /\ pc' = "error"
            /\ UNCHANGED profiles
       ELSE /\ pc' = "convolve"
            /\ Phi_omega' =
                 LET L == LorentzArr(omega, Q(0, 1), Gamma_L)
                 IN  [j \in 1..Len(L) |-> RatMul(Rat(Phi, 1), L[j])]
            /\ sigma_omega_0' =
                 LET L == LorentzArr(omega_0, Q(0, 1), Gamma_H)
                     peak == RatMul(Rat(sigma, 1),
                                    RatDiv(RatMul(Pi, Rat(Gamma_H, 1)), Rat(2, 1)))
                 IN  [k \in 1..Len(L) |-> RatMul(peak, L[k])]
    /\ UNCHANGED <<params, grid, R_omega_0, densities, scalars, report, prev, lz>>

\* line 217
ConvolveStep ==
    /\ pc = "convolve"
    /\ IF Len(Phi_omega) = 0 \/ Len(sigma_omega_0) = 0
       THEN \* np.convolve raises on an empty array
            /\ pc' = "error"
            /\ UNCHANGED R_omega_0
       ELSE /\ pc' = "densities"
            /\ R_omega_0' =
                 LET c == Convolve(Phi_omega, sigma_omega_0)
                     d == QAbsRat(d_omega)
                 IN  [k \in 1..Len(c) |-> RatMul(c[k], d)]
    /\ UNCHANGED <<params, grid, profiles, densities, scalars, report, prev, lz>>

\* A faulty variant of ExcitedFraction: R / (Gamma_Ex + R), the factor 2 dropped.
ExcitedFractionNoTwo(R, G_Ex) == RatDiv(R, RatAdd(Rat(G_Ex, 1), R))

\* A faulty variant of ExcitedFraction: R / (Gamma_Ex + 2 R)**2, the denominator squared.
ExcitedFractionSquared(R, G_Ex) ==
    LET den == RatAdd(Rat(G_Ex, 1), RatMul(Rat(2, 1), R))
    IN  RatDiv(R, RatMul(den, den))

\* Frac_omega_0 = R_omega_0 / (Gamma_Ex + 2 * R_omega_0), one bin
ExcitedFraction(R, G_Ex) ==
    RatDiv(R, RatAdd(Rat(G_Ex, 1), RatMul(Rat(2, 1), R)))

\* lines 219-220
Densities ==
    /\ pc = "densities"
    /\ IF Gamma_In = 0
       THEN /\ pc' = "error"
            /\ UNCHANGED densities
       ELSE /\ pc' = "integrate"
            /\ N_Inhom_omega_0' =
                 LET L == LorentzArr(omega_tot, Q(0, 1), Gamma_In)
                 IN  [i \in 1..Len(L) |-> RatMul(Rat(N_Inhom, 1), L[i])]
            /\ Frac_omega_0' =
                 [k \in 1..Len(R_omega_0) |-> ExcitedFraction(R_omega_0[k], Gamma_Ex)]
    /\ UNCHANGED <<params, grid, profiles, R_omega_0, scalars, report, prev, lz>>

\* A faulty variant of ScatterSum: the excitation fraction left out of the product.
ScatterSumUnweighted(N_om, d, Frac) ==
    RatSum([i \in 1..Len(N_om) |-> RatMul(N_om[i], d)], 1)

\* np.sum(N_Inhom_omega_0 * d_omega * Frac_omega_0); the element-wise product
\* needs operands of one length
ScatterSum(N_om, d, Frac) ==
    RatSum([i \in 1..Len(N_om) |-> RatMul(RatMul(N_om[i], d), Frac[i])], 1)

\* lines 222-223
Integrate ==
    /\ pc = "integrate"
    /\ IF Len(N_Inhom_omega_0) # Len(Frac_omega_0)
       THEN \* operands could not be broadcast together
            /\ pc' = "error"
            /\ UNCHANGED scalars
       ELSE /\ pc' = "report"
            /\ Omega_0_sq' = RatMul(RatMax(R_omega_0, 1), Rat(Gamma_H, 1))
            /\ Gamma_Sc' =
                 RatMul(Rat(Gamma_Ex, 1),
                        ScatterSum(N_Inhom_omega_0, QAbsRat(d_omega), Frac_omega_0))
    /\ UNCHANGED <<params, grid, profiles, R_omega_0, densities, report, prev, lz>>

\* np.sum(N_Inhom_omega_0 * d_omega) / N_Inhom
AtomsAvailable(N_om, d, N) ==
    RatDiv(RatSum([i \in 1..Len(N_om) |-> RatMul(N_om[i], d)], 1), Rat(N, 1))

\* lines 225-230: the six printed lines
Report ==
    /\ pc = "report"
    /\ pc' = "done"
    /\ report' =
         [lines |-> 6,
          warnings |-> {},   \* no statement of the cell issues a warning
          available |-> AtomsAvailable(N_Inhom_omega_0, QAbsRat(d_omega), N_Inhom),
          peak_fraction |-> RatMax(Frac_omega_0, 1),
          peak_rate |-> RatDiv(RatMax(R_omega_0, 1), Rat(Gamma_Ex, 1)),
          \* (Omega_0/2/np.pi)**2
          rabi_hz_sq |-> RatDiv(RatDiv(Omega_0_sq, RatMul(Rat(2, 1), Rat(2, 1))),
                                RatMul(Pi, Pi)),
          Gamma_Sc |-> Gamma_Sc,
          current |-> RatMul(RatMul(Gamma_Sc, Eff), ElectronsPerPicoAmp)]
    /\ UNCHANGED <<params, grid, profiles, R_omega_0, densities, scalars, prev, lz>>

\* A parameter cell is executed again with another photon flux or another
\* atom count, and the modelling cell is executed again from its first line.
Rerun ==
    /\ pc = "done"
    /\ \E f \in Fluxes, n \in AtomCounts :
         /\ f = Phi \/ n = N_Inhom
         /\ Phi' = f
         /\ N_Inhom' = n
    /\ pc' = "grid"
    /\ prev' = [valid |-> TRUE, Phi |-> Phi, N_Inhom |-> N_Inhom, Gamma_Sc |-> Gamma_Sc]
    /\ UNCHANGED <<Gamma_L, Gamma_Ex, Gamma_H, Gamma_In, sigma>>
    /\ UNCHANGED <<grid, profiles, R_omega_0, densities, scalars, report, lz>>

(***************************************************************************)
(* A stand-alone call Lorentz(x, x0, Gamma) with a scalar or an array x.   *)
(***************************************************************************)
MaxLen == 2
Offsets == {Q(-3, 2), Q(-1, 2), Q(0, 1), Q(1, 1), Q(5, 2)}
Centres == {Q(-1, 1), Q(0, 1), Q(1, 2)}
CallWidths == {1, 2, 3}
OffsetArrays == UNION {[1..n -> Offsets] : n \in 0..MaxLen}

LorentzCall ==
    /\ lz.pc = "call"
    /\ lz' = [lz EXCEPT
                !.pc = "returned",
                !.out = IF lz.shape = "scalar"
                        THEN Lorentz(lz.x, lz.x0, lz.Gamma)
                        ELSE LorentzArr(lz.x, lz.x0, lz.Gamma)]
    /\ UNCHANGED <<pc, params, grid, profiles, R_omega_0, densities, scalars,
                   report, prev>>

InitLorentz ==
    /\ pc = "idle"
    /\ Gamma_L = 1 /\ Gamma_Ex = 1 /\ Gamma_H = 1 /\ Gamma_In = 1
    /\ Phi = 1 /\ sigma = 1 /\ N_Inhom = 1
    /\ Cleared
    /\ prev = NoPrev
    /\ \E shape \in {"scalar", "array"}, x0 \in Centres, G \in CallWidths :
         \E x \in (IF shape = "scalar" THEN Offsets ELSE OffsetArrays) :
            lz = [pc |-> "call", shape |-> shape, x |-> x, x0 |-> x0, Gamma |-> G,
                  entry |-> <<x, x0, G>>, out |-> <<>>]

NextLorentz == LorentzCall

SpecLorentz == InitLorentz /\ [][NextLorentz]_vars

Next ==
    \/ BuildGrid
    \/ Profiles
    \/ ConvolveStep
    \/ Densities
    \/ Integrate
    \/ Report
    \/ Rerun

Spec == Init /\ [][Next]_vars

(***************************************************************************)
(* Properties.                                                             *)
(***************************************************************************)
PositiveWidths == Gamma_L > 0 /\ Gamma_H > 0 /\ Gamma_In > 0 /\ Gamma_Ex > 0
GridReady == pc \in {"profiles", "convolve", "densities", "integrate", "report", "done"}
RateReady == pc \in {"densities", "integrate", "report", "done"}
FracReady == pc \in {"integrate", "report", "done"}
Half == Rat(1, 2)
Last(ax) == ax[Len(ax)]

\* C1 (as stated): with positive linewidths every sample of the combined axis
\* is omega[0] + omega_0[0] + i * d_omega, equivalently
\* omega_tot[i + j] = omega[i] + omega_0[j], so that bin k of the convolution
\* is paired with the detuning omega_tot[k].
C1_GridAlignment ==
    (Gamma_L > 0 /\ Gamma_H > 0 /\ GridReady) =>
        /\ \A i \in 1..Len(omega_tot) :
             omega_tot[i] = QAdd(QAdd(omega[1], omega_0[1]), QMulInt(d_omega, i - 1))
        /\ \A i \in 1..Len(omega) : \A j \in 1..Len(omega_0) :
             omega_tot[i + j - 1] = QAdd(omega[i], omega_0[j])

\* (1/pi) (Gamma/2) / ((x - x0)^2 + (Gamma/2)^2), the normalized density
LorentzFormula(x, x0, Gamma) ==
    LET dx == QAbsRat(QSub(x, x0))
        hw == Rat(Gamma, 2)
    IN  RatDiv(RatMul(RatDiv(RatOne, Pi), hw),
               RatAdd(RatMul(dx, dx), RatMul(hw, hw)))

\* (R / Gamma_Ex) / (1 + 2 R / Gamma_Ex), the saturation formula as written
PExFormula(R, G_Ex) ==
    RatDiv(RatDiv(R, Rat(G_Ex, 1)),
           RatAdd(RatOne, RatDiv(RatMul(Rat(2, 1), R), Rat(G_Ex, 1))))

InvalidParameter ==
    Gamma_L <= 0 \/ Gamma_Ex <= 0 \/ Gamma_H <= 0 \/ Gamma_In <= 0 \/ Phi <= 0

\* C3 (as stated): when a linewidth or the beam power (photon flux) is
\* non-positive, the first execution of the cell is rejected before any
\* frequency axis is constructed and produces no scalar result.
C3_InvalidParameterRejected ==
    (InvalidParameter /\ ~prev.valid) =>
        /\ pc \in {"grid", "error"}
        /\ omega = <<>> /\ omega_0 = <<>> /\ omega_tot = <<>>
        /\ report = NoReport

\* C4: of two executions that differ only in the photon flux, or only in the
\* atom count (linewidths, cross-section and grids the same), the one with
\* the larger value has a Gamma_Sc at least as large.
C4_ScalingMonotone ==
    (pc = "done" /\ prev.valid /\ (prev.Phi = Phi \/ prev.N_Inhom = N_Inhom)) =>
        /\ (prev.Phi <= Phi /\ prev.N_Inhom <= N_Inhom)
               => RatLeq(prev.Gamma_Sc, Gamma_Sc)
        /\ (prev.Phi >= Phi /\ prev.N_Inhom >= N_Inhom)
               => RatLeq(Gamma_Sc, prev.Gamma_Sc)

\* C4 witness: a second execution with a strictly larger flux and the same
\* atom count gave a strictly larger rate.
C4_Witness ==
    /\ pc = "done" /\ prev.valid
    /\ prev.N_Inhom = N_Inhom /\ prev.Phi > 0 /\ prev.Phi < Phi
    /\ RatLess(prev.Gamma_Sc, Gamma_Sc)

\* C5: with positive linewidths, omega_tot has len(omega) + len(omega_0) - 1
\* samples, which is the length of the full convolution R_omega_0;
\* N_Inhom_omega_0 and Frac_omega_0 have that length too and the index order of
\* omega_tot (element i is the atom density at omega_tot[i], the saturation
\* fraction of R_omega_0[i]), and the product summed into Gamma_Sc is defined
\* (no shape error is raised).
C5_ParallelLengths ==
    PositiveWidths =>
        /\ pc # "error"
        /\ GridReady => Len(omega_tot) = Len(omega) + Len(omega_0) - 1
        /\ RateReady =>
             /\ Len(R_omega_0) = Len(Phi_omega) + Len(sigma_omega_0) - 1
             /\ Len(R_omega_0) = Len(omega_tot)
        /\ FracReady =>
             /\ Len(N_Inhom_omega_0) = Len(omega_tot)
             /\ Len(Frac_omega_0) = Len(omega_tot)
        /\ pc = "integrate" =>
             \A i \in 1..Len(omega_tot) :
                /\ RatEq(N_Inhom_omega_0[i],
                         RatMul(Rat(N_Inhom, 1),
                                LorentzFormula(omega_tot[i], Q(0, 1), Gamma_In)))
                /\ RatEq(Frac_omega_0[i], PExFormula(R_omega_0[i], Gamma_Ex))

\* C5 witness: an execution ran to its end on axes of different lengths.
C5_Witness ==
    /\ pc = "done" /\ PositiveWidths
    /\ Len(omega) # Len(omega_0)
    /\ Len(omega_tot) > Len(omega_0)

AxisUniform(ax) ==
    \A i \in 1..(Len(ax) - 1) :
        /\ ax[i + 1] = QAdd(ax[i], d_omega)
        /\ QLess(ax[i], ax[i + 1])

AxisHalfOpen(ax, Gamma) ==
    /\ Len(ax) >= 1
    /\ AxisUniform(ax)
    /\ ax[1] = Q(-3 * Gamma, 2)
    /\ QLess(Last(ax), Q(3 * Gamma, 2))
    /\ ~QLess(Last(ax), QSub(Q(3 * Gamma, 2), d_omega))

C7_LorentzEvaluator ==
    lz.pc = "returned" =>
        /\ <<lz.x, lz.x0, lz.Gamma>> = lz.entry
        /\ IF lz.shape = "scalar"
           THEN RatEq(lz.out, LorentzFormula(lz.x, lz.x0, lz.Gamma))
           ELSE /\ Len(lz.out) = Len(lz.x)
                /\ \A i \in 1..Len(lz.x) :
                     RatEq(lz.out[i], LorentzFormula(lz.x[i], lz.x0, lz.Gamma))

\* C7 witness: a call on an array of two different offsets, off centre,
\* has returned.
C7_Witness ==
    /\ lz.pc = "returned" /\ lz.shape = "array"
    /\ Len(lz.x) = 2 /\ lz.x[1] # lz.x[2]
    /\ lz.x0 # Q(0, 1) /\ lz.x[1] # lz.x0 /\ lz.Gamma > 1
    /\ ~RatEq(lz.out[1], lz.out[2])

Min(a, b) == IF a < b THEN a ELSE b
\* the smaller of Gamma_L and Gamma_H is below the step d_omega
UnderResolved == Min(Gamma_L, Gamma_H) * Steps < Max(Gamma_L, Gamma_H)

\* C8 (as stated): when the step is coarser than the narrower linewidth, an
\* execution that reports its results has surfaced an under-resolution warning.
C8_UnderResolutionWarned ==
    (PositiveWidths /\ Phi > 0 /\ UnderResolved /\ pc = "done") =>
        /\ report.lines = 6
        /\ "NumericalUnderResolution" \in report.warnings

\* C9 (as stated): with positive linewidths, flux and N_Inhom the reported
\* share sum(N_Inhom_omega_0 * d_omega) / N_Inhom is above 0 and at most 1.
C9_AvailableIsFraction ==
    (PositiveWidths /\ N_Inhom > 0 /\ Phi > 0 /\ pc = "done") =>
        /\ RatLess(RatZero, report.available)
        /\ RatLeq(report.available, RatOne)

\* 0.5 * Gamma_Ex * sum(N_Inhom_omega_0 * d_omega)
SaturationCap ==
    RatMul(RatMul(Half, Rat(Gamma_Ex, 1)),
           RatSum([i \in 1..Len(N_Inhom_omega_0) |->
                      RatMul(N_Inhom_omega_0[i], QAbsRat(d_omega))], 1))

====
